---- MODULE Spec2Model ----
(***************************************************************************)
(* Model of l2_arp_mitigation.py: a POX L2 learning switch that validates  *)
(* ARP requests and replies against a DHCP-fed IP->MAC table (hosts) and   *)
(* a table of outstanding ARP requests (requests), with a free-running     *)
(* thread (monitor_arp_requests) that cleans old requests.                 *)
(*                                                                         *)
(* The handlers (_handle_ConnectionUp, _handle_dhcp_lease,                 *)
(* _handle_PacketIn) run on POX's single cooperative event loop, so each   *)
(* is one action.  The monitor is a separate OS thread: it is modelled one *)
(* dictionary access per step.  A handler touches `requests` with at most  *)
(* one read followed by one write of the same key, and the monitor only    *)
(* ever writes None, so running a handler as one step loses no             *)
(* interleaving with the monitor.                                          *)
(***************************************************************************)
EXTENDS Integers, Sequences, FiniteSets, TLC

VARIABLES
    hosts,              \* dict str(ip) -> str(mac)                 (line 32)
    requests,           \* dict (srcIP, dstIP) -> timestamp | None   (line 36)
    now,                \* the value time.time() returns
    macToPort,          \* per connected switch: dict EthAddr -> port (line 98)
    hold_down_expired,  \* per connected switch                      (line 105)
    connect_time,       \* per connected switch: connection.connect_time
    transparent,        \* l2_learning.transparent                   (line 287)
    flood_delay,        \* _flood_delay                              (line 42, 303)
    sent,               \* messages the last handler sent to its connection
    notices,            \* per connected switch: "hold-down expired" lines logged (145)
    ev,                 \* the last event handled and how its handler ended
    wpc,                \* monitor_arp_requests: position
    cur_time,           \* monitor_arp_requests: cur_time
    wkeys,              \* monitor_arp_requests: keys of the for loop still to visit
    wi                  \* monitor_arp_requests: i

vars == <<hosts, requests, now, macToPort, hold_down_expired, connect_time,
          transparent, flood_delay, sent, notices, ev, wpc, cur_time, wkeys, wi>>

----------------------------------------------------------------------------
(* Bounds of the model *)

MaxTime == 6

NumPorts == 2

MaxHoldDown == 3

----------------------------------------------------------------------------
(* Program constants *)

None == -1

REQUEST == 1

REPLY == 2

ARP_TYPE == 2054

LLDP_TYPE == 35020

OFPP_NONE == 65535

OFPP_FLOOD == 65531

OFPP_CONTROLLER == 65533

OFPP_TABLE == 65529

OFP_FLOW_PERMANENT == 0

SpoofIdle == 10

SpoofHard == 60

LoopDrop == 10

FwdIdle == 10

FwdHard == 30

MaxAge == 5

----------------------------------------------------------------------------
(* Addresses.  An EthAddr is its six octets, an IPAddr its four; the tables *)
(* of the program hold their str() forms.                                   *)

NoneAddr == <<>>

MAC1 == <<0, 0, 0, 0, 0, 1>>

MAC2 == <<0, 0, 0, 0, 0, 2>>

Broadcast == <<255, 255, 255, 255, 255, 255>>

BridgeMAC == <<1, 128, 194, 0, 0, 14>>

ZeroMAC == <<0, 0, 0, 0, 0, 0>>

HostMACs == {MAC1, MAC2}

AllMACs == HostMACs \cup {Broadcast, BridgeMAC, ZeroMAC}

IP1 == <<10, 0, 0, 1>>

IP2 == <<10, 0, 0, 2>>

IPs == {IP1, IP2}

Ports == 1..NumPorts

NoPort == 0

HexByte == (0 :> "00") @@ (1 :> "01") @@ (2 :> "02") @@ (14 :> "0e")
           @@ (128 :> "80") @@ (194 :> "c2") @@ (255 :> "ff")

DecByte == (0 :> "0") @@ (1 :> "1") @@ (2 :> "2") @@ (10 :> "10")

\* str(EthAddr): lower-case hex octets joined by ':'
EthStrOf(m) == HexByte[m[1]] \o ":" \o HexByte[m[2]] \o ":" \o HexByte[m[3]] \o ":"
               \o HexByte[m[4]] \o ":" \o HexByte[m[5]] \o ":" \o HexByte[m[6]]

\* str(IPAddr): dotted decimal
IpStrOf(ip) == DecByte[ip[1]] \o "." \o DecByte[ip[2]] \o "." \o DecByte[ip[3]]
               \o "." \o DecByte[ip[4]]

\* The two conversions, tabulated once over the addresses of the model
EthStrTable == [m \in AllMACs |-> EthStrOf(m)]

IpStrTable == [ip \in IPs |-> IpStrOf(ip)]

EthStr(m) == EthStrTable[m]

IpStr(ip) == IpStrTable[ip]

\* EthAddr(s): parse the str() form back
EthAddr(s) == CHOOSE m \in AllMACs : EthStrTable[m] = s

\* IPAddr(s): parse the str() form back
IPAddr(s) == CHOOSE ip \in IPs : IpStrTable[ip] = s

is_multicast(m) == m[1] % 2 = 1

isBridgeFiltered(m) ==
    /\ m[1] = 1 /\ m[2] = 128 /\ m[3] = 194 /\ m[4] = 0 /\ m[5] = 0
    /\ m[6] <= 15

----------------------------------------------------------------------------
(* Python dictionaries *)

EmptyDict == [k \in {} |-> 0]

\* d[k] = v
Put(d, k, v) == [x \in (DOMAIN d) \cup {k} |-> IF x = k THEN v ELSE d[x]]

----------------------------------------------------------------------------
(* Packets and events *)

\* ARP packets with the given opcode, source IPs and (ethernet and ARP)
\* destination MACs; the ethernet and ARP source MAC vary over the hosts'.
\* Source and destination IP are distinct.
ArpFrames(opcode, srcs, dsts) ==
    { p \in [type : {ARP_TYPE}, src : HostMACs, dst : dsts,
             opcode : {opcode}, protosrc : srcs, protodst : IPs,
             hwsrc : HostMACs, hwdst : dsts \cup {ZeroMAC}] :
        /\ p.protosrc # p.protodst 
        /\ (p.hwdst = ZeroMAC) = (opcode = REQUEST) }

\* ARP requests of both hosts: broadcast, target hardware address zero
ArpRequests == ArpFrames(REQUEST, IPs, {Broadcast})

\* ARP replies in the name of IP2 to IP1, with every ethernet and ARP
\* source and destination MAC
ArpReplies == ArpFrames(REPLY, {IP2}, HostMACs \cup {Broadcast})

ArpPackets == ArpRequests \cup ArpReplies

\* DHCP leases: each host's own address, IP1 leased anew to the other host,
\* and events with a field None
Leases == {<<IP1, MAC1>>, <<IP1, MAC2>>, <<IP2, MAC2>>,
           <<NoneAddr, MAC1>>, <<IP1, NoneAddr>>}

\* Frames that are not ARP, with the given ethertypes, sources and destinations
EtherFrames(types, srcs, dsts) ==
    { [type |-> t, src |-> s, dst |-> d, opcode |-> 0,
       protosrc |-> NoneAddr, protodst |-> NoneAddr,
       hwsrc |-> NoneAddr, hwdst |-> NoneAddr] : t \in types, s \in srcs, d \in dsts }

\* Data frames between the hosts, to themselves, to everybody and to a
\* bridge-filtered address; their ethertype (0x88B5) is one the controller
\* parses no payload of
DataPackets == EtherFrames({34997}, HostMACs, HostMACs \cup {Broadcast, BridgeMAC})

\* LLDP frames, to the LLDP multicast address and to a host
LldpPackets == EtherFrames({LLDP_TYPE}, {MAC1}, {BridgeMAC, MAC2})

NoPkt == [type |-> 0, src |-> NoneAddr, dst |-> NoneAddr, opcode |-> 0,
          protosrc |-> NoneAddr, protodst |-> NoneAddr,
          hwsrc |-> NoneAddr, hwdst |-> NoneAddr]

NoEvent == [kind |-> "none", sw |-> "", port |-> NoPort, pkt |-> NoPkt,
            buffer_id |-> None, lease |-> <<NoneAddr, NoneAddr>>,
            spoofs |-> 0, outcome |-> "", repeat |-> FALSE]

----------------------------------------------------------------------------
(* OpenFlow messages *)

\* of.ofp_match(): every field a wildcard
NoMatch == [in_port |-> NoPort, dl_type |-> 0, dl_src |-> NoneAddr, dl_dst |-> NoneAddr,
            nw_proto |-> None, nw_src |-> NoneAddr, nw_dst |-> NoneAddr,
            tp_src |-> None, tp_dst |-> None]

\* of.ofp_match.from_packet(packet, in_port); in_port NoPort when not given.
\* For an ARP packet the match carries the opcode and the two IP addresses;
\* the other packets of the model have no parsed payload.
from_packet(p, in_port) ==
    [NoMatch EXCEPT !.in_port = in_port, !.dl_type = p.type,
                    !.dl_src = p.src, !.dl_dst = p.dst,
                    !.nw_proto = IF p.type = ARP_TYPE THEN p.opcode ELSE None,
                    !.nw_src = IF p.type = ARP_TYPE THEN p.protosrc ELSE NoneAddr,
                    !.nw_dst = IF p.type = ARP_TYPE THEN p.protodst ELSE NoneAddr]

ofp_flow_mod(match, idle, hard, actions, buffer_id) ==
    [msg |-> "flow_mod", match |-> match, idle_timeout |-> idle,
     hard_timeout |-> hard, actions |-> actions, buffer_id |-> buffer_id,
     in_port |-> NoPort]

ofp_packet_out(actions, buffer_id, in_port) ==
    [msg |-> "packet_out", match |-> NoMatch, idle_timeout |-> 0,
     hard_timeout |-> 0, actions |-> actions, buffer_id |-> buffer_id,
     in_port |-> in_port]

\* The barrier that ofp_flow_mod.pack() puts between a flow_mod and the
\* packet-out of its unbuffered data
ofp_barrier_request ==
    [msg |-> "barrier_request", match |-> NoMatch, idle_timeout |-> 0,
     hard_timeout |-> 0, actions |-> <<>>, buffer_id |-> None, in_port |-> NoPort]

\* What connection.send gives the switch for a flow_mod whose data is the
\* packet-in (msg.data = event.ofp): for a buffered packet the flow_mod with
\* the buffer_id; for an unbuffered one the flow_mod, a barrier and a
\* packet-out that sends the raw packet through the flow table
with_data(fm, buffer_id, in_port) ==
    IF buffer_id # None
    THEN <<fm>>
    ELSE <<fm, ofp_barrier_request, ofp_packet_out(<<OFPP_TABLE>>, None, in_port)>>

\* handle_spoof: the flow entry that drops the packet's flow from its port
handle_spoof(p, port, buffer_id) ==
    ofp_flow_mod(from_packet(p, port), SpoofIdle, SpoofHard, <<OFPP_NONE>>, buffer_id)

\* lines 112-116: the permanent rule that sends all ARP packets to the
\* controller
ArpRule ==
    ofp_flow_mod([NoMatch EXCEPT !.dl_type = ARP_TYPE],
                 OFP_FLOW_PERMANENT, OFP_FLOW_PERMANENT, <<OFPP_CONTROLLER>>, None)

\* lines 121-125: the permanent rule for DHCP packets (UDP, port 67 to 68)
DhcpRule ==
    ofp_flow_mod([NoMatch EXCEPT !.nw_proto = 17, !.tp_src = 67, !.tp_dst = 68],
                 OFP_FLOW_PERMANENT, OFP_FLOW_PERMANENT, <<OFPP_CONTROLLER>>, None)

\* The messages LearningSwitch.__init__ sends: connection.send is called at
\* line 117 for the ARP rule; the DHCP rule is built and never sent.
connection_rules == <<ArpRule>>

----------------------------------------------------------------------------
(* ARP validation: lines 198-249 of _handle_PacketIn.  Each operator gives   *)
(* the number of handle_spoof calls, how the ARP stage is left ("fall": on   *)
(* to the learning switch, "return": the handler returns, "fault": an        *)
(* exception leaves the handler) and the requests table afterwards.          *)

ArpResult(n, exit, reqs) == [spoofs |-> n, exit |-> exit, requests |-> reqs]

\* `dst_ip_arp not in hosts.keys()`: the IPAddr is compared with each str key
InHostsKeys(ip) == \E k \in DOMAIN hosts : IPAddr(k) = ip

\* arp_request without the return of line 214: the mismatching request goes on
\* to line 221
arp_request_noreturn(p) ==
    IF p.src # p.hwsrc
    THEN ArpResult(1, "fall", Put(requests, <<p.protosrc, p.protodst>>, now))
    ELSE IF IpStr(p.protosrc) \notin DOMAIN hosts
    THEN ArpResult(0, "fault", requests)
    ELSE LET spoof == \/ EthAddr(hosts[IpStr(p.protosrc)]) # p.hwsrc
                      \/ ~InHostsKeys(p.protodst)
         IN  ArpResult(IF spoof THEN 1 ELSE 0, "fall",
                       Put(requests, <<p.protosrc, p.protodst>>, now))

\* arp_request with line 221 moved before the checks: the request is recorded
\* first and looked up after
arp_request_record_first(p) ==
    IF p.src # p.hwsrc
    THEN ArpResult(1, "return", requests)
    ELSE IF IpStr(p.protosrc) \notin DOMAIN hosts
    THEN ArpResult(0, "fault", Put(requests, <<p.protosrc, p.protodst>>, now))
    ELSE LET spoof == \/ EthAddr(hosts[IpStr(p.protosrc)]) # p.hwsrc
                      \/ ~InHostsKeys(p.protodst)
         IN  ArpResult(IF spoof THEN 1 ELSE 0, "fall",
                       Put(requests, <<p.protosrc, p.protodst>>, now))

\* lines 209-221
arp_request(p) ==
    IF p.src # p.hwsrc
    THEN ArpResult(1, "return", requests)
    ELSE IF IpStr(p.protosrc) \notin DOMAIN hosts
    THEN ArpResult(0, "fault", requests)                        \* KeyError
    ELSE LET spoof == \/ EthAddr(hosts[IpStr(p.protosrc)]) # p.hwsrc
                      \/ ~InHostsKeys(p.protodst)
         IN  ArpResult(IF spoof THEN 1 ELSE 0, "fall",
                       Put(requests, <<p.protosrc, p.protodst>>, now))

\* lines 225-236, the if/elif chain: "spoof", "pass" or "fault" (KeyError)
reply_chain(p) ==
    IF p.src # p.hwsrc THEN "spoof"
    ELSE IF p.dst # p.hwdst THEN "spoof"
    ELSE IF IpStr(p.protosrc) \notin DOMAIN hosts THEN "fault"
    ELSE IF EthAddr(hosts[IpStr(p.protosrc)]) # p.hwsrc THEN "spoof"
    ELSE IF IpStr(p.protodst) \notin DOMAIN hosts THEN "fault"
    ELSE IF EthAddr(hosts[IpStr(p.protodst)]) # p.hwdst THEN "spoof"
    ELSE "pass"

\* arp_reply without line 249: the answered request stays pending
arp_reply_keeps(p) ==
    LET c   == reply_chain(p)
        n1  == IF c = "spoof" THEN 1 ELSE 0
        n2  == n1 + (IF EthStr(p.dst) = "ff:ff:ff:ff:ff:ff" THEN 1 ELSE 0)
        key == <<p.protodst, p.protosrc>>
    IN  IF c = "fault" THEN ArpResult(0, "fault", requests)
        ELSE IF key \notin DOMAIN requests
        THEN ArpResult(n2, "fault", requests)
        ELSE IF requests[key] = None
        THEN ArpResult(n2 + 1, "return", requests)
        ELSE ArpResult(n2, "fall", requests)

\* lines 223-249
arp_reply(p) ==
    LET c   == reply_chain(p)
        n1  == IF c = "spoof" THEN 1 ELSE 0
        n2  == n1 + (IF EthStr(p.dst) = "ff:ff:ff:ff:ff:ff" THEN 1 ELSE 0)
        key == <<p.protodst, p.protosrc>>
    IN  IF c = "fault" THEN ArpResult(0, "fault", requests)
        ELSE IF key \notin DOMAIN requests
        THEN ArpResult(n2, "fault", requests)                   \* KeyError
        ELSE IF requests[key] = None
        THEN ArpResult(n2 + 1, "return", requests)
        ELSE ArpResult(n2, "fall", Put(requests, key, None))

\* lines 198-249
arp_stage(p) ==
    IF p.type # ARP_TYPE THEN ArpResult(0, "fall", requests)
    ELSE IF p.opcode = REQUEST THEN arp_request(p)
    ELSE IF p.opcode = REPLY THEN arp_reply(p)
    ELSE ArpResult(0, "fall", requests)

----------------------------------------------------------------------------
(* The learning switch: lines 251-279, with flood (137-157) and drop        *)
(* (159-177).  Each operator gives the messages sent, how the handler ends   *)
(* and the new hold_down_expired of the switch.                              *)

L2Result(msgs, outcome, hde, notice) ==
    [msgs |-> msgs, outcome |-> outcome, hde |-> hde, notice |-> notice]

\* learn without the assignment of line 252
learn_skip(tbl, src, port) == tbl

\* learn as `self.macToPort = {packet.src: event.port}`: what was learnt before
\* is forgotten
learn_only(tbl, src, port) == Put(EmptyDict, src, port)

\* line 252
learn(tbl, src, port) == Put(tbl, src, port)

\* flood with `>` for `>=` at line 140
flood_late(sw, port, buffer_id) ==
    IF now - connect_time[sw] > flood_delay
    THEN L2Result(<<ofp_packet_out(<<OFPP_FLOOD>>, buffer_id, port)>>, "flooded", TRUE,
                  IF hold_down_expired[sw] = FALSE THEN 1 ELSE 0)
    ELSE L2Result(<<ofp_packet_out(<<>>, buffer_id, port)>>, "held_down",
                  hold_down_expired[sw], 0)

\* flood without line 144: the watermark is left as it is
flood_nolatch(sw, port, buffer_id) ==
    IF now - connect_time[sw] >= flood_delay
    THEN L2Result(<<ofp_packet_out(<<OFPP_FLOOD>>, buffer_id, port)>>, "flooded",
                  hold_down_expired[sw],
                  IF hold_down_expired[sw] = FALSE THEN 1 ELSE 0)
    ELSE L2Result(<<ofp_packet_out(<<>>, buffer_id, port)>>, "held_down",
                  hold_down_expired[sw], 0)

\* lines 137-157
flood(sw, port, buffer_id) ==
    IF now - connect_time[sw] >= flood_delay
    THEN L2Result(<<ofp_packet_out(<<OFPP_FLOOD>>, buffer_id, port)>>, "flooded", TRUE,
                  IF hold_down_expired[sw] = FALSE THEN 1 ELSE 0)
    ELSE L2Result(<<ofp_packet_out(<<>>, buffer_id, port)>>, "held_down",
                  hold_down_expired[sw], 0)

\* lines 159-177 with duration None
drop(sw, port, buffer_id) ==
    L2Result(IF buffer_id # None THEN <<ofp_packet_out(<<>>, buffer_id, port)>> ELSE <<>>,
             "dropped", hold_down_expired[sw], 0)

\* drop with a duration, the timeouts left at their default
drop_for_permanent(sw, p, duration, buffer_id) ==
    L2Result(<<ofp_flow_mod(from_packet(p, NoPort), OFP_FLOW_PERMANENT,
                            OFP_FLOW_PERMANENT, <<>>, buffer_id)>>,
             "loop_drop", hold_down_expired[sw], 0)

\* lines 159-177 with a duration
drop_for(sw, p, duration, buffer_id) ==
    L2Result(<<ofp_flow_mod(from_packet(p, NoPort), duration, duration, <<>>, buffer_id)>>,
             "loop_drop", hold_down_expired[sw], 0)

\* forward without line 277: the flow has no action
forward_noaction(sw, port, p, buffer_id, out) ==
    L2Result(with_data(ofp_flow_mod(from_packet(p, port), FwdIdle, FwdHard, <<>>,
                                    buffer_id), buffer_id, port),
             "forwarded", hold_down_expired[sw], 0)

\* lines 270-279: one flow_mod with msg.data = event.ofp.  For a buffered
\* packet it carries the buffer_id, so that the switch applies the new flow to
\* the buffered packet; for an unbuffered one a barrier and a packet-out to
\* OFPP_TABLE follow it.
forward(sw, port, p, buffer_id, out) ==
    L2Result(with_data(ofp_flow_mod(from_packet(p, port), FwdIdle, FwdHard, <<out>>,
                                    buffer_id), buffer_id, port),
             "forwarded", hold_down_expired[sw], 0)

\* l2_stage with the test of line 254 on the ethertype only
l2_stage_lldp_only(sw, port, p, buffer_id, tbl) ==
    IF ~transparent /\ p.type = LLDP_TYPE
    THEN drop(sw, port, buffer_id)
    ELSE IF is_multicast(p.dst) THEN flood(sw, port, buffer_id)
    ELSE IF p.dst \notin DOMAIN tbl THEN flood(sw, port, buffer_id)
    ELSE IF tbl[p.dst] = port THEN drop_for(sw, p, LoopDrop, buffer_id)
    ELSE forward(sw, port, p, buffer_id, tbl[p.dst])

\* lines 253-279, on the table as learnt from this packet
l2_stage(sw, port, p, buffer_id, tbl) ==
    IF ~transparent /\ (p.type = LLDP_TYPE \/ isBridgeFiltered(p.dst))
    THEN drop(sw, port, buffer_id)
    ELSE IF is_multicast(p.dst) THEN flood(sw, port, buffer_id)
    ELSE IF p.dst \notin DOMAIN tbl THEN flood(sw, port, buffer_id)
    ELSE IF tbl[p.dst] = port THEN drop_for(sw, p, LoopDrop, buffer_id)
    ELSE forward(sw, port, p, buffer_id, tbl[p.dst])

----------------------------------------------------------------------------
(* The state after launch(transparent, hold_down): no switch connected, the  *)
(* tables empty, the monitor thread started and asleep.                      *)

Launch(tr, hd) ==
    /\ hosts = EmptyDict
    /\ requests = EmptyDict
    /\ now = 0
    /\ macToPort = EmptyDict
    /\ hold_down_expired = EmptyDict
    /\ connect_time = EmptyDict
    /\ transparent = tr
    /\ flood_delay = hd
    /\ sent = <<>>
    /\ notices = EmptyDict
    /\ ev = NoEvent
    /\ wpc = "sleep"
    /\ cur_time = 0
    /\ wkeys = {}
    /\ wi = <<>>

\* launch() with its defaults
Init == Launch(FALSE, 0)

----------------------------------------------------------------------------
(* Handlers of the event loop *)

\* l2_learning._handle_ConnectionUp and LearningSwitch.__init__: only the ARP
\* rule is sent, the DHCP rule is built and never sent.
handle_ConnectionUp(sw) ==
    /\ sw \notin DOMAIN macToPort
    /\ macToPort' = Put(macToPort, sw, EmptyDict)
    /\ hold_down_expired' = Put(hold_down_expired, sw, flood_delay = 0)
    /\ connect_time' = Put(connect_time, sw, now)
    /\ sent' = connection_rules
    /\ notices' = Put(notices, sw, 0)
    /\ ev' = [NoEvent EXCEPT !.kind = "ConnectionUp", !.sw = sw]
    /\ UNCHANGED <<hosts, requests, now, transparent, flood_delay,
                   wpc, cur_time, wkeys, wi>>

\* _handle_dhcp_lease with hosts.setdefault for the assignment of line 49: the
\* first binding of an address stays
handle_dhcp_lease_first(ip, mac) ==
    /\ DOMAIN macToPort # {}
    /\ hosts' = IF ip # NoneAddr /\ mac # NoneAddr /\ IpStr(ip) \notin DOMAIN hosts
                THEN Put(hosts, IpStr(ip), EthStr(mac))
                ELSE hosts
    /\ sent' = <<>>
    /\ ev' = [NoEvent EXCEPT !.kind = "DHCPLease", !.lease = <<ip, mac>>]
    /\ UNCHANGED <<requests, now, macToPort, hold_down_expired, connect_time,
                   transparent, flood_delay, notices, wpc, cur_time, wkeys, wi>>

\* _handle_dhcp_lease; it is registered by LearningSwitch.__init__
handle_dhcp_lease(ip, mac) ==
    /\ DOMAIN macToPort # {}
    /\ hosts' = IF ip # NoneAddr /\ mac # NoneAddr
                THEN Put(hosts, IpStr(ip), EthStr(mac))
                ELSE hosts
    /\ sent' = <<>>
    /\ ev' = [NoEvent EXCEPT !.kind = "DHCPLease", !.lease = <<ip, mac>>]
    /\ UNCHANGED <<requests, now, macToPort, hold_down_expired, connect_time,
                   transparent, flood_delay, notices, wpc, cur_time, wkeys, wi>>

\* LearningSwitch._handle_PacketIn
handle_PacketIn(sw, port, p, buffer_id) ==
    /\ sw \in DOMAIN macToPort
    /\ LET a     == arp_stage(p)
           drops == [i \in 1..a.spoofs |-> handle_spoof(p, port, buffer_id)]
           tbl   == learn(macToPort[sw], p.src, port)
           f     == l2_stage(sw, port, p, buffer_id, tbl)
           fall  == a.exit = "fall"
       IN  /\ requests' = a.requests
           /\ macToPort' = IF fall THEN [macToPort EXCEPT ![sw] = tbl] ELSE macToPort
           /\ hold_down_expired' = IF fall
                                   THEN [hold_down_expired EXCEPT ![sw] = f.hde]
                                   ELSE hold_down_expired
           /\ sent' = IF fall THEN drops \o f.msgs ELSE drops
           /\ notices' = IF fall
                         THEN [notices EXCEPT ![sw] = @ + f.notice]
                         ELSE notices
           /\ ev' = [kind |-> "PacketIn", sw |-> sw, port |-> port, pkt |-> p,
                     buffer_id |-> buffer_id, lease |-> <<NoneAddr, NoneAddr>>,
                     spoofs |-> a.spoofs,
                     outcome |-> IF fall THEN f.outcome
                                 ELSE IF a.exit = "return" THEN "spoof_return"
                                 ELSE "fault",
                     repeat |-> /\ ev.kind = "PacketIn" /\ ev.sw = sw
                                /\ ev.port = port /\ ev.pkt = p
                                /\ ev.buffer_id = buffer_id
                                /\ ev.spoofs = 0 /\ ev.outcome # "fault"]
    /\ UNCHANGED <<hosts, now, connect_time, transparent, flood_delay,
                   wpc, cur_time, wkeys, wi>>

\* time passes
Tick ==
    /\ now < MaxTime
    /\ now' = now + 1
    /\ UNCHANGED <<hosts, requests, macToPort, hold_down_expired, connect_time,
                   transparent, flood_delay, sent, notices, ev, wpc, cur_time, wkeys, wi>>

----------------------------------------------------------------------------
(* monitor_arp_requests, lines 313-322, one access of shared state per step *)

monitor_frame == <<hosts, now, macToPort, hold_down_expired, connect_time,
                   transparent, flood_delay, sent, notices, ev>>

\* lines 315-316: time.sleep(1) is over; cur_time = time.time()
monitor_wake ==
    /\ wpc = "sleep"
    /\ wpc' = "keys"
    /\ cur_time' = now
    /\ UNCHANGED <<requests, wkeys, wi>>
    /\ UNCHANGED monitor_frame

\* line 317: requests.keys() is a list made once, before the loop
monitor_keys ==
    /\ wpc = "keys"
    /\ wpc' = "loop"
    /\ wkeys' = DOMAIN requests
    /\ UNCHANGED <<requests, cur_time, wi>>
    /\ UNCHANGED monitor_frame

\* lines 317, 320: the next i, and the test requests[i] != None; with no key
\* left, back to line 313
monitor_next ==
    /\ wpc = "loop"
    /\ IF wkeys = {}
       THEN /\ wpc' = "sleep"
            /\ cur_time' = 0
            /\ wkeys' = {}
            /\ wi' = <<>>
       ELSE \E i \in wkeys :
              /\ wkeys' = wkeys \ {i}
              /\ wi' = i
              /\ wpc' = IF requests[i] # None THEN "age" ELSE "loop"
              /\ cur_time' = cur_time
    /\ UNCHANGED requests
    /\ UNCHANGED monitor_frame

\* line 320: cur_time - requests[i] > 5, a second read of requests[i]; the
\* subtraction raises TypeError on None and the thread ends
monitor_age ==
    /\ wpc = "age"
    /\ wpc' = IF requests[wi] = None THEN "dead"
              ELSE IF cur_time - requests[wi] > MaxAge THEN "clean"
              ELSE "loop"
    /\ UNCHANGED <<requests, cur_time, wkeys, wi>>
    /\ UNCHANGED monitor_frame

\* line 321: requests[i] = None
monitor_clean ==
    /\ wpc = "clean"
    /\ requests' = Put(requests, wi, None)
    /\ wpc' = "loop"
    /\ UNCHANGED <<cur_time, wkeys, wi>>
    /\ UNCHANGED monitor_frame

monitor_arp_requests ==
    \/ monitor_wake
    \/ monitor_keys
    \/ monitor_next
    \/ monitor_age
    \/ monitor_clean

----------------------------------------------------------------------------
(* Specifications *)

\* The event loop on one switch, with every ARP packet of ArpPackets
Next ==
    \/ handle_ConnectionUp("s1")
    \/ \E l \in Leases : handle_dhcp_lease(l[1], l[2])
    \/ \E port \in Ports, p \in ArpPackets : handle_PacketIn("s1", port, p, 1)

Spec == Init /\ [][Next]_vars

\* The monitor thread beside the event loop, time passing, and the two hosts
\* resolving each other: each host on its own port, with its leased address,
\* sends well-formed requests and replies.
HostTraffic ==
    { e \in [port : Ports, pkt : ArpRequests \cup ArpFrames(REPLY, IPs, HostMACs)] :
        \E h \in {<<1, IP1, MAC1, IP2, MAC2>>, <<2, IP2, MAC2, IP1, MAC1>>} :
          /\ e.port = h[1]
          /\ e.pkt.protosrc = h[2] /\ e.pkt.src = h[3] /\ e.pkt.hwsrc = h[3]
          /\ e.pkt.protodst = h[4]
          /\ \/ e.pkt.opcode = REQUEST
             \/ e.pkt.opcode = REPLY /\ e.pkt.dst = h[5] /\ e.pkt.hwdst = h[5] }

\* The state after launch(), ConnectionUp of s1 and the two hosts' leases
InitWatchdog ==
    /\ hosts = Put(Put(EmptyDict, IpStr(IP1), EthStr(MAC1)), IpStr(IP2), EthStr(MAC2))
    /\ requests = EmptyDict
    /\ now = 0
    /\ macToPort = Put(EmptyDict, "s1", EmptyDict)
    /\ hold_down_expired = Put(EmptyDict, "s1", TRUE)
    /\ connect_time = Put(EmptyDict, "s1", 0)
    /\ transparent = FALSE
    /\ flood_delay = 0
    /\ sent = <<>>
    /\ notices = Put(EmptyDict, "s1", 0)
    /\ ev = [NoEvent EXCEPT !.kind = "DHCPLease", !.lease = <<IP2, MAC2>>]
    /\ wpc = "sleep"
    /\ cur_time = 0
    /\ wkeys = {}
    /\ wi = <<>>

NextWatchdog ==
    \/ Tick
    \/ monitor_arp_requests
    \/ \E e \in HostTraffic : handle_PacketIn("s1", e.port, e.pkt, 1)

SpecWatchdog == InitWatchdog /\ [][NextWatchdog]_vars

\* The monitor thread is scheduled again and again, and time goes on
SpecWatchdogFair ==
    /\ SpecWatchdog
    /\ WF_vars(monitor_arp_requests)
    /\ WF_vars(Tick)

\* The learning switch on one connection: launch(transparent, hold_down) with
\* either flag and the hold-down 0 (the default) or MaxHoldDown, the switch
\* connecting at any time, time passing, and frames that are not ARP arriving on every
\* port, buffered (the LLDP frames also unbuffered).
SwitchTraffic ==
    { e \in [port : Ports, pkt : DataPackets \cup LldpPackets, buffer_id : {1, None}] :
        e.buffer_id = None => e.pkt.type = LLDP_TYPE }

InitSwitch == \E tr \in BOOLEAN, hd \in {0, MaxHoldDown} : Launch(tr, hd)

NextSwitch ==
    \/ handle_ConnectionUp("s1")
    \/ Tick
    \/ \E e \in SwitchTraffic : handle_PacketIn("s1", e.port, e.pkt, e.buffer_id)

SpecSwitch == InitSwitch /\ [][NextSwitch]_vars

\* Leases, packets and the monitor together: from launch, the switch connects,
\* addresses are leased (and leased anew to the other host), host 1 asks for
\* host 2 and host 2 answers, time passes and the monitor sweeps.
LeaseTraffic ==
    { e \in HostTraffic :
        <<e.pkt.opcode, e.pkt.protosrc>> \in {<<REQUEST, IP1>>, <<REPLY, IP2>>} }

NextLease ==
    \/ handle_ConnectionUp("s1")
    \/ \E l \in Leases : handle_dhcp_lease(l[1], l[2])
    \/ Tick
    \/ monitor_arp_requests
    \/ \E e \in LeaseTraffic : handle_PacketIn("s1", e.port, e.pkt, 1)

SpecLease == Init /\ [][NextLease]_vars

\* The filter of step 2 with every kind of packet: after launch with either
\* transparent flag, ConnectionUp of s1 and the two hosts' leases, every port
\* receives the frames of SwitchTraffic and ARP requests in the name of IP1
\* sent to the bridge-filtered address.
BridgeArpPackets == ArpFrames(REQUEST, {IP1}, {BridgeMAC})

FilterTraffic ==
    SwitchTraffic \cup [port : Ports, pkt : BridgeArpPackets, buffer_id : {1}]

InitFilter ==
    /\ hosts = Put(Put(EmptyDict, IpStr(IP1), EthStr(MAC1)), IpStr(IP2), EthStr(MAC2))
    /\ requests = EmptyDict
    /\ now = 0
    /\ macToPort = Put(EmptyDict, "s1", EmptyDict)
    /\ hold_down_expired = Put(EmptyDict, "s1", TRUE)
    /\ connect_time = Put(EmptyDict, "s1", 0)
    /\ transparent \in BOOLEAN
    /\ flood_delay = 0
    /\ sent = <<>>
    /\ notices = Put(EmptyDict, "s1", 0)
    /\ ev = [NoEvent EXCEPT !.kind = "DHCPLease", !.lease = <<IP2, MAC2>>]
    /\ wpc = "sleep"
    /\ cur_time = 0
    /\ wkeys = {}
    /\ wi = <<>>

NextFilter ==
    \E e \in FilterTraffic : handle_PacketIn("s1", e.port, e.pkt, e.buffer_id)

SpecFilter == InitFilter /\ [][NextFilter]_vars

\* Two connections: launch with either transparent flag, the switches s1 and
\* s2 connect in either order, and each receives the data frames on every
\* port.
InitFabric == \E tr \in BOOLEAN : Launch(tr, 0)

NextFabric ==
    \/ \E sw \in {"s1", "s2"} : handle_ConnectionUp(sw)
    \/ \E sw \in {"s1", "s2"}, port \in Ports, p \in DataPackets :
         handle_PacketIn(sw, port, p, 1)

SpecFabric == InitFabric /\ [][NextFabric]_vars

----------------------------------------------------------------------------
(* Vocabulary of the properties *)

\* The last event was a PacketIn of an ARP request / reply
IsRequest == ev.kind = "PacketIn" /\ ev.pkt.type = ARP_TYPE /\ ev.pkt.opcode = REQUEST

IsReply == ev.kind = "PacketIn" /\ ev.pkt.type = ARP_TYPE /\ ev.pkt.opcode = REPLY

\* This step is the handling of the PacketIn that ev' records
Handled == ev'.kind = "PacketIn"
           /\ handle_PacketIn(ev'.sw, ev'.port, ev'.pkt, ev'.buffer_id)

HandledRequest == Handled /\ ev'.pkt.type = ARP_TYPE /\ ev'.pkt.opcode = REQUEST

HandledReply == Handled /\ ev'.pkt.type = ARP_TYPE /\ ev'.pkt.opcode = REPLY

\* The messages hold a drop flow for packet p of the port: SPOOF was declared
DropFlowIn(msgs, p, port) ==
    \E i \in 1..Len(msgs) :
      /\ msgs[i].msg = "flow_mod"
      /\ msgs[i].actions = <<OFPP_NONE>>
      /\ msgs[i].match = from_packet(p, port)
      /\ msgs[i].idle_timeout = 10 /\ msgs[i].hard_timeout = 60

\* The last handler declared SPOOF
Spoofed == DropFlowIn(sent, ev.pkt, ev.port)

\* The AddressBindingTable binds ip to mac
BindingIs(ip, mac) == IpStr(ip) \in DOMAIN hosts /\ hosts[IpStr(ip)] = EthStr(mac)

\* There is a Pending entry for the key
Pending(k) == k \in DOMAIN requests /\ requests[k] # None

\* The key a reply answers: (dstIP, srcIP)
ReplyKey(p) == <<p.protodst, p.protosrc>>

RequestKey(p) == <<p.protosrc, p.protodst>>

\* The three checks of a request
RequestChecksPass(p) ==
    /\ p.src = p.hwsrc
    /\ BindingIs(p.protosrc, p.hwsrc)
    /\ \E mac \in AllMACs : BindingIs(p.protodst, mac)

\* Checks 1-5 of a reply
ReplyChecksPass(p) ==
    /\ p.src = p.hwsrc
    /\ p.dst = p.hwdst
    /\ BindingIs(p.protosrc, p.hwsrc)
    /\ BindingIs(p.protodst, p.hwdst)
    /\ p.dst # Broadcast

----------------------------------------------------------------------------
(* Properties *)

\* C1: a reply that fails one of the checks 1-5 leaves the pending requests
\* as they were.
C1_FailedReplyKeepsRequests ==
    [][ (HandledReply /\ ~ReplyChecksPass(ev'.pkt)) => requests' = requests ]_vars

\* C2: no step gives a key a timestamp it did not hold except the handling of
\* a request for that key that passes the three request checks; a request
\* declared SPOOF changes no entry.
C2_OnlyValidRequestRecords ==
    [][ /\ \A k \in DOMAIN requests' :
             (requests'[k] # None /\ (k \notin DOMAIN requests \/ requests[k] # requests'[k]))
             => (HandledRequest /\ RequestKey(ev'.pkt) = k /\ RequestChecksPass(ev'.pkt))
        /\ (HandledRequest /\ DropFlowIn(sent', ev'.pkt, ev'.port)) => requests' = requests
      ]_vars

\* C3: a reply with no Pending entry for (dstIP, srcIP) is declared SPOOF and
\* its handler ends without a fault.
C3_ReplyWithoutPendingIsSpoof ==
    [][ (HandledReply /\ ~Pending(ReplyKey(ev'.pkt)))
        => (DropFlowIn(sent', ev'.pkt, ev'.port) /\ ev'.outcome # "fault") ]_vars

\* C4: a request with ethernet-src = ARP-src whose source IP has no binding is
\* declared SPOOF, records nothing and does not fault.
C4_UnknownSourceIsSpoof ==
    [][ (HandledRequest /\ ev'.pkt.src = ev'.pkt.hwsrc
         /\ IpStr(ev'.pkt.protosrc) \notin DOMAIN hosts)
        => /\ DropFlowIn(sent', ev'.pkt, ev'.port)
           /\ ev'.outcome # "fault"
           /\ requests' = requests ]_vars

\* C5: a reply that passes the checks 1-5 while the entry it answers is
\* Pending is VALID and leaves the entry None; the same reply arriving again
\* right after a VALID one, with no other packet in between, is declared SPOOF
\* and the entry stays None.
C5_SecondReplyIsSpoof ==
    [][ HandledReply =>
        /\ (ReplyChecksPass(ev'.pkt) /\ Pending(ReplyKey(ev'.pkt)))
           => /\ ~DropFlowIn(sent', ev'.pkt, ev'.port)
              /\ ev'.spoofs = 0
              /\ ev'.outcome \notin {"fault", "spoof_return"}
              /\ requests'[ReplyKey(ev'.pkt)] = None
        /\ ev'.repeat
           => /\ DropFlowIn(sent', ev'.pkt, ev'.port)
              /\ ev'.outcome = "spoof_return"
              /\ requests'[ReplyKey(ev'.pkt)] = None ]_vars

\* C5 witness: a reply handled right after the same reply was VALID, and
\* declared SPOOF
C5_Witness ==
    /\ IsReply /\ ev.repeat
    /\ Spoofed
    /\ requests[ReplyKey(ev.pkt)] = None

\* C6: the monitor sets a Pending entry to None only if the timestamp stored
\* at that moment is more than 5 seconds old.
C6_SweepClearsOnlyOld ==
    [][ (monitor_clean /\ Pending(wi)) => now - requests[wi] > MaxAge ]_vars

\* C7: a Pending entry more than 5 seconds old does not stay: it is cleaned
\* (or answered, or recorded anew).
C7_OldRequestIsCleaned ==
    \A k \in {<<IP1, IP2>>, <<IP2, IP1>>} : \A t \in 0..(MaxTime - MaxAge - 1) :
        (Pending(k) /\ requests[k] = t /\ now - t > MaxAge)
        ~> ~(Pending(k) /\ requests[k] = t)

\* C8: a request whose ethernet source differs from its ARP source is declared
\* SPOOF, whatever the two tables hold, and changes neither table.
C8_SrcMismatchRequestIsSpoof ==
    [][ (HandledRequest /\ ev'.pkt.src # ev'.pkt.hwsrc)
        => /\ DropFlowIn(sent', ev'.pkt, ev'.port)
           /\ hosts' = hosts
           /\ requests' = requests ]_vars

\* C8 witness: such a request handled while both tables hold entries
C8_Witness ==
    /\ IsRequest /\ ev.pkt.src # ev.pkt.hwsrc
    /\ Spoofed
    /\ DOMAIN hosts # {}
    /\ \E k \in DOMAIN requests : requests[k] # None

\* C9: a reply whose ethernet destination is the broadcast address is declared
\* SPOOF.
C9_BroadcastReplyIsSpoof ==
    (IsReply /\ ev.pkt.dst = Broadcast) => Spoofed

\* C10 as claimed: every ARP packet declared SPOOF is learnt from, and no SPOOF
\* path returns before the learning step.
C10_SpoofAlwaysLearns ==
    (ev.kind = "PacketIn" /\ ev.pkt.type = ARP_TYPE /\ Spoofed)
    => /\ ev.outcome # "spoof_return"
       /\ ev.pkt.src \in DOMAIN macToPort[ev.sw]
       /\ macToPort[ev.sw][ev.pkt.src] = ev.port

\* C10 amended: an ARP packet declared SPOOF is learnt from unless its handler
\* has left before line 252.  The handler returns right after the drop flow
\* exactly for a request whose ethernet source differs from its ARP source and
\* for a reply whose entry is None; it faults only for a reply whose key was
\* never recorded; in both cases macToPort is left as it was.
C10_SpoofLearnsUnlessLeft ==
    [][ (Handled /\ ev'.pkt.type = ARP_TYPE /\ DropFlowIn(sent', ev'.pkt, ev'.port))
        => IF \/ (ev'.pkt.opcode = REQUEST /\ ev'.pkt.src # ev'.pkt.hwsrc)
              \/ /\ ev'.pkt.opcode = REPLY
                 /\ ReplyKey(ev'.pkt) \in DOMAIN requests
                 /\ requests[ReplyKey(ev'.pkt)] = None
           THEN ev'.outcome = "spoof_return" /\ macToPort' = macToPort
           ELSE IF ev'.pkt.opcode = REPLY /\ ReplyKey(ev'.pkt) \notin DOMAIN requests
           THEN ev'.outcome = "fault" /\ macToPort' = macToPort
           ELSE /\ ev'.outcome \notin {"spoof_return", "fault"}
                /\ ev'.pkt.src \in DOMAIN macToPort'[ev'.sw]
                /\ macToPort'[ev'.sw][ev'.pkt.src] = ev'.port ]_vars

\* C10 witness: an ARP packet declared SPOOF and learnt from
C10_Witness ==
    /\ ev.kind = "PacketIn" /\ ev.pkt.type = ARP_TYPE
    /\ Spoofed
    /\ ev.outcome \notin {"spoof_return", "fault"}
    /\ macToPort[ev.sw][ev.pkt.src] = ev.port

\* C11: right after ConnectionUp of a switch, before any PacketIn of it, exactly
\* two permanent rules have been sent to it: the ARP rule and the DHCP rule,
\* both with the controller as output.
C11_TwoPermanentRules ==
    (ev.kind = "ConnectionUp")
    => /\ Len(sent) = 2
       /\ \E i, j \in 1..Len(sent) : sent[i] = ArpRule /\ sent[j] = DhcpRule
       /\ \A i \in 1..Len(sent) :
            /\ sent[i].msg = "flow_mod"
            /\ sent[i].idle_timeout = OFP_FLOW_PERMANENT
            /\ sent[i].hard_timeout = OFP_FLOW_PERMANENT
            /\ sent[i].actions = <<OFPP_CONTROLLER>>

\* The handler of this step went on to the learning switch (line 252)
HandledL2 == Handled /\ ev'.outcome \notin {"spoof_return", "fault"}

\* The packet is dropped by step 2: LLDP or bridge-filtered, and not transparent
Filtered(p) == ~transparent /\ (p.type = LLDP_TYPE \/ p.dst = BridgeMAC)

\* The destination is in macToPort of the switch once the packet is learnt from
KnownDst(sw, p) == p.dst = p.src \/ p.dst \in DOMAIN macToPort[sw]

\* The port learnt for the destination, once the packet is learnt from
PortOfDst(sw, port, p) == IF p.dst = p.src THEN port ELSE macToPort[sw][p.dst]

\* The output ports the messages name: actions of packet-outs and of flows,
\* the drop action OFPP_NONE aside
Outputs(msgs) ==
    UNION { { msgs[i].actions[j] : j \in 1..Len(msgs[i].actions) } : i \in 1..Len(msgs) }
    \ {OFPP_NONE}

\* C12: a packet that reaches a flood decision (destination multicast or
\* broadcast, or not in macToPort) is neither flooded nor forwarded while
\* now - connectTime < holdDown, and is flooded once now - connectTime >= holdDown.
C12_FloodAfterHoldDown ==
    [][ (HandledL2 /\ ~Filtered(ev'.pkt)
         /\ (ev'.pkt.dst = Broadcast \/ ~KnownDst(ev'.sw, ev'.pkt)))
        => IF now - connect_time[ev'.sw] < flood_delay
           THEN Outputs(sent') = {}
           ELSE \E i \in 1..Len(sent') :
                  /\ sent'[i].msg = "packet_out"
                  /\ sent'[i].actions = <<OFPP_FLOOD>>
                  /\ sent'[i].buffer_id = ev'.buffer_id
                  /\ sent'[i].in_port = ev'.port ]_vars

\* C12 witness: with the hold-down MaxHoldDown, a packet to an unknown
\* destination is flooded just when the hold-down is over
C12_Witness ==
    /\ ev.kind = "PacketIn" /\ ev.outcome = "flooded"
    /\ ev.pkt.dst = MAC2 /\ ev.pkt.src = MAC1
    /\ flood_delay = MaxHoldDown
    /\ now - connect_time[ev.sw] = flood_delay

\* The destination is one host's address: not a group address
Unicast(p) == p.dst[1] % 2 = 0

\* The packet of this step is past the filter of step 2, unicast, its
\* destination known once the packet is learnt from
HandledKnownUnicast ==
    /\ HandledL2 /\ ~Filtered(ev'.pkt) /\ Unicast(ev'.pkt)
    /\ KnownDst(ev'.sw, ev'.pkt)

\* The messages hold a flow for packet p of the port with the timeouts 10 s
\* and 30 s whose action is the output to port out
ForwardFlowIn(msgs, p, port, out) ==
    \E i \in 1..Len(msgs) :
      /\ msgs[i].msg = "flow_mod"
      /\ msgs[i].match = from_packet(p, port)
      /\ msgs[i].idle_timeout = 10 /\ msgs[i].hard_timeout = 30
      /\ msgs[i].actions = <<out>>

\* C13 as claimed: a unicast packet that is not dropped, with its destination
\* known at a port other than the ingress port, gets a flow (10 s, 30 s) with
\* the output to that port, and a PacketOut besides that sends the buffered
\* packet out that port.
C13_ForwardFlowAndPacketOut ==
    [][ (HandledKnownUnicast /\ PortOfDst(ev'.sw, ev'.port, ev'.pkt) # ev'.port)
        => LET out == PortOfDst(ev'.sw, ev'.port, ev'.pkt)
           IN  /\ ForwardFlowIn(sent', ev'.pkt, ev'.port, out)
               /\ \E i \in 1..Len(sent') :
                    /\ sent'[i].msg = "packet_out"
                    /\ sent'[i].actions = <<out>>
                    /\ sent'[i].buffer_id = ev'.buffer_id ]_vars

\* C13 amended: for such a packet, buffered at the switch, the one message the
\* learning switch sends is the flow (10 s, 30 s) with the output to the learnt
\* port, and this flow carries the buffer id of the packet, by which the
\* switch applies it to the buffered packet; no PacketOut is sent.
C13_ForwardFlowWithBuffer ==
    [][ (HandledKnownUnicast /\ PortOfDst(ev'.sw, ev'.port, ev'.pkt) # ev'.port
         /\ ev'.buffer_id # None)
        => LET out == PortOfDst(ev'.sw, ev'.port, ev'.pkt)
               n   == Len(sent')
           IN  /\ n = ev'.spoofs + 1
               /\ ForwardFlowIn(<<sent'[n]>>, ev'.pkt, ev'.port, out)
               /\ sent'[n].buffer_id = ev'.buffer_id
               /\ \A i \in 1..n : sent'[i].msg # "packet_out"
               /\ Outputs(sent') = {out} ]_vars

\* C13 witness: macToPort = {MAC1: port 1}, and a packet for MAC1 that came in
\* at port 2 was given a flow to port 1
C13_Witness ==
    /\ ev.kind = "PacketIn" /\ ev.outcome = "forwarded"
    /\ ev.pkt.dst = MAC1 /\ ev.port = 2
    /\ macToPort[ev.sw][MAC1] = 1
    /\ ForwardFlowIn(sent, ev.pkt, ev.port, 1)

\* C14: a unicast packet that is not dropped, with its destination known (the
\* packet learnt from first, so also when its source is its destination) at
\* the ingress port, gets a suppressive flow with idle = hard = 10 s and no
\* output action; no forwarding flow and no flood is sent for it.
C14_SamePortSuppressed ==
    [][ (HandledKnownUnicast /\ PortOfDst(ev'.sw, ev'.port, ev'.pkt) = ev'.port)
        => LET n == Len(sent')
           IN  /\ n = ev'.spoofs + 1
               /\ sent'[n].msg = "flow_mod"
               /\ sent'[n].match.dl_src = ev'.pkt.src
               /\ sent'[n].match.dl_dst = ev'.pkt.dst
               /\ sent'[n].idle_timeout = 10 /\ sent'[n].hard_timeout = 10
               /\ sent'[n].actions = <<>>
               /\ Outputs(sent') = {}
               /\ \A i \in 1..n : sent'[i].msg # "packet_out" ]_vars

\* C14 witness: a packet whose source is its destination was given the
\* suppressive flow
C14_Witness ==
    /\ ev.kind = "PacketIn" /\ ev.outcome = "loop_drop"
    /\ ev.pkt.dst = ev.pkt.src
    /\ Len(sent) = 1 /\ sent[1].msg = "flow_mod" /\ sent[1].actions = <<>>
    /\ sent[1].hard_timeout = 10

\* This step is the handling of the lease event that ev' records
HandledLease == ev'.kind = "DHCPLease"
                /\ handle_dhcp_lease(ev'.lease[1], ev'.lease[2])

\* lookup(ip) on a binding table: the EthAddr bound to ip, or None
lookupIn(tbl, ip) == IF IpStr(ip) \in DOMAIN tbl THEN EthAddr(tbl[IpStr(ip)]) ELSE NoneAddr

lookup(ip) == lookupIn(hosts, ip)

\* C15: a lease of (ip, mac), both not None, makes lookup(ip) = mac and leaves
\* every other binding; the lease of a pair that is bound already changes
\* nothing; and no other step (a lease with a None field, a PacketIn, a step
\* of the monitor, time) adds, changes or removes a binding.
C15_LastLeaseWins ==
    [][ IF HandledLease /\ ev'.lease[1] # NoneAddr /\ ev'.lease[2] # NoneAddr
        THEN /\ lookupIn(hosts', ev'.lease[1]) = ev'.lease[2]
             /\ \A ip \in IPs \ {ev'.lease[1]} : lookupIn(hosts', ip) = lookup(ip)
             /\ DOMAIN hosts' = DOMAIN hosts \cup {IpStr(ev'.lease[1])}
             /\ lookup(ev'.lease[1]) = ev'.lease[2] => hosts' = hosts
        ELSE hosts' = hosts ]_vars

\* C15 witness: IP1 has just been leased to MAC2 and lookup gives MAC2, after
\* host 1's packets were handled and more than 5 s of sweeps
C15_Witness ==
    /\ ev.kind = "DHCPLease" /\ ev.lease = <<IP1, MAC2>>
    /\ lookup(IP1) = MAC2 /\ lookup(IP2) = MAC2
    /\ MAC1 \in DOMAIN macToPort["s1"]
    /\ <<IP1, IP2>> \in DOMAIN requests /\ requests[<<IP1, IP2>>] = None
    /\ now > MaxAge /\ wpc = "sleep"

\* C16: the monitor thread never ends in a fault, whatever handlers run
\* between its steps.
C16_WatchdogNeverFaults == wpc # "dead"

\* The packet is LLDP or goes to a bridge-filtered address
LinkLocal(p) == p.type = LLDP_TYPE \/ p.dst = BridgeMAC

\* The messages are those of the steps 3-6 for packet p of the port: a flood
\* for a group or unknown destination, the suppressive flow for a destination
\* at the ingress port, the forwarding flow otherwise
NormalSteps(msgs, sw, port, p) ==
    IF ~Unicast(p) \/ ~KnownDst(sw, p)
    THEN \E i \in 1..Len(msgs) :
           msgs[i].msg = "packet_out"
           /\ (now - connect_time[sw] >= flood_delay => msgs[i].actions = <<OFPP_FLOOD>>)
    ELSE IF PortOfDst(sw, port, p) = port
    THEN \E i \in 1..Len(msgs) :
           /\ msgs[i].msg = "flow_mod" /\ msgs[i].actions = <<>>
           /\ msgs[i].idle_timeout = 10 /\ msgs[i].hard_timeout = 10
    ELSE ForwardFlowIn(msgs, p, port, PortOfDst(sw, port, p))

\* The source of packet p is learnt at the port in table tbl
LearntIn(tbl, p, port) == p.src \in DOMAIN tbl /\ tbl[p.src] = port

\* C17 as claimed: with transparent false, an LLDP packet or a packet to a
\* bridge-filtered address gives no flood, no forwarding flow and no flow
\* install at all, and its source is learnt; with transparent true it goes
\* through the steps 3-6.
C17_LinkLocalSilentAndLearnt ==
    [][ (Handled /\ LinkLocal(ev'.pkt))
        => IF ~transparent
           THEN /\ Outputs(sent') = {}
                /\ \A i \in 1..Len(sent') : sent'[i].msg # "flow_mod"
                /\ LearntIn(macToPort'[ev'.sw], ev'.pkt, ev'.port)
           ELSE NormalSteps(sent', ev'.sw, ev'.port, ev'.pkt) ]_vars

\* C17 amended: the claim holds of the packets whose handler reaches the
\* learning step (every packet that is not ARP; an ARP packet unless the ARP
\* validation returned or faulted), and the flows ruled out are those of the
\* learning switch: the messages are the drop flows the ARP validation sent
\* for SPOOF (none for a packet that is not ARP) and, for a buffered packet,
\* one packet-out with no action.
C17_LinkLocalDroppedAfterLearning ==
    [][ (HandledL2 /\ LinkLocal(ev'.pkt))
        => IF ~transparent
           THEN /\ Outputs(sent') = {}
                /\ Len(sent') = ev'.spoofs + (IF ev'.buffer_id # None THEN 1 ELSE 0)
                /\ \A i \in 1..Len(sent') :
                     IF i <= ev'.spoofs
                     THEN sent'[i] = handle_spoof(ev'.pkt, ev'.port, ev'.buffer_id)
                     ELSE sent'[i].msg = "packet_out" /\ sent'[i].actions = <<>>
                /\ (ev'.pkt.type # ARP_TYPE => ev'.spoofs = 0)
                /\ LearntIn(macToPort'[ev'.sw], ev'.pkt, ev'.port)
           ELSE /\ NormalSteps(sent', ev'.sw, ev'.port, ev'.pkt)
                /\ LearntIn(macToPort'[ev'.sw], ev'.pkt, ev'.port) ]_vars

\* C17 witness: with transparent false, a data packet to the bridge-filtered
\* address was dropped with one empty packet-out, its source learnt
C17_Witness ==
    /\ ~transparent
    /\ ev.kind = "PacketIn" /\ ev.pkt.dst = BridgeMAC /\ ev.pkt.type # ARP_TYPE
    /\ ev.pkt.type # LLDP_TYPE
    /\ Len(sent) = 1 /\ sent[1].msg = "packet_out" /\ sent[1].actions = <<>>
    /\ LearntIn(macToPort[ev.sw], ev.pkt, ev.port)

\* C18: a PacketIn of one connection leaves the macToPort of every other
\* connection as it was; in its own table it changes at most the entry of the
\* packet's source, which it sets to the ingress port; no entry is removed.
C18_PacketInTouchesOwnEntryOnly ==
    [][ Handled =>
        /\ DOMAIN macToPort' = DOMAIN macToPort
        /\ \A sw \in DOMAIN macToPort \ {ev'.sw} : macToPort'[sw] = macToPort[sw]
        /\ LET old == macToPort[ev'.sw]
               new == macToPort'[ev'.sw]
           IN  /\ DOMAIN old \subseteq DOMAIN new
               /\ DOMAIN new \subseteq DOMAIN old \cup {ev'.pkt.src}
               /\ \A m \in DOMAIN old \ {ev'.pkt.src} : new[m] = old[m]
               /\ new # old => new[ev'.pkt.src] = ev'.port
               /\ HandledL2 => LearntIn(new, ev'.pkt, ev'.port) ]_vars

\* C18 witness: a packet of s2 was learnt from while s1 holds other entries,
\* and s2 holds an entry learnt before
C18_Witness ==
    /\ ev.kind = "PacketIn" /\ ev.sw = "s2" /\ ev.pkt.src = MAC1 /\ ev.port = 2
    /\ DOMAIN macToPort = {"s1", "s2"}
    /\ macToPort["s1"] = (MAC1 :> 1 @@ MAC2 :> 2)
    /\ macToPort["s2"] = (MAC1 :> 2 @@ MAC2 :> 2)

\* C19: hold_down_expired of an engine is true from its creation when the
\* hold-down is 0, is never set back to false, is true after every flood the
\* engine has sent, and the notice "hold-down expired" is logged at most once
\* per engine.
C19_HoldDownExpiredMonotone ==
    [][ /\ \A sw \in DOMAIN hold_down_expired' :
             /\ flood_delay = 0 => hold_down_expired'[sw]
             /\ sw \notin DOMAIN hold_down_expired
                => (hold_down_expired'[sw] = (flood_delay = 0) /\ notices'[sw] = 0)
             /\ (sw \in DOMAIN hold_down_expired /\ hold_down_expired[sw])
                => (hold_down_expired'[sw] /\ notices'[sw] = notices[sw])
             /\ notices'[sw] <= 1
        /\ (Handled /\ OFPP_FLOOD \in Outputs(sent')) => hold_down_expired'[ev'.sw]
      ]_vars

\* C19 witness: with a hold-down, the engine has flooded, the watermark is
\* true and the notice was logged once
C19_Witness ==
    /\ flood_delay > 0
    /\ ev.kind = "PacketIn" /\ OFPP_FLOOD \in Outputs(sent)
    /\ now - connect_time[ev.sw] > flood_delay
    /\ hold_down_expired[ev.sw] /\ notices[ev.sw] = 1

\* The address has no binding
Unbound(ip) == IpStr(ip) \notin DOMAIN hosts

\* A lookup in a registry misses while packet p is validated: the binding of
\* the source of a request; the binding of the source or of the destination
\* of a reply; the pending key of a reply, never recorded
LookupMiss(p) ==
    IF p.opcode = REQUEST
    THEN p.src = p.hwsrc /\ Unbound(p.protosrc)
    ELSE \/ /\ p.src = p.hwsrc /\ p.dst = p.hwdst
            /\ \/ Unbound(p.protosrc)
               \/ BindingIs(p.protosrc, p.hwsrc) /\ Unbound(p.protodst)
         \/ ReplyKey(p) \notin DOMAIN requests

\* C20: the handling of an ARP packet ends in a fault exactly when a registry
\* lookup misses, and then the bindings, the pending requests and macToPort
\* are all as they were before the packet: the fault comes before any write.
C20_FaultLeavesStateUnchanged ==
    [][ (Handled /\ ev'.pkt.type = ARP_TYPE)
        => /\ (ev'.outcome = "fault") = LookupMiss(ev'.pkt)
           /\ ev'.outcome = "fault"
              => (hosts' = hosts /\ requests' = requests /\ macToPort' = macToPort)
      ]_vars

\* C20 witness: a reply whose key was never recorded has faulted while both
\* bindings, another pending request and learnt ports are there
C20_Witness ==
    /\ IsReply /\ ev.outcome = "fault"
    /\ BindingIs(IP1, MAC1) /\ BindingIs(IP2, MAC2)
    /\ ReplyKey(ev.pkt) \notin DOMAIN requests
    /\ Pending(<<IP2, IP1>>)
    /\ DOMAIN macToPort[ev.sw] # {}

====
